---- MODULE Spec2Model ----
(***************************************************************************)
(* react_agent: the Configuration record, its from_context factory         *)
(* (configuration.py) and the State shape with its message reducer         *)
(* (state.py).                                                             *)
(*                                                                         *)
(* Python objects are records [t, s, i, d]: t the type, s the text of a    *)
(* str, i the number of an int or the length of a list, d the entries of a *)
(* dict (a function from keys to objects).                                 *)
(***************************************************************************)
EXTENDS Integers, Sequences, FiniteSets, TLC

VARIABLES
    imports,      \* which optional modules import: [get_config, ensure_config]
    context,      \* the ambient run context, as the host holds it
    call,         \* the latest operation and its keyword arguments
    outcome,      \* how the latest operation ended
    heap,         \* the Configuration objects alive, by object id
    held,         \* id of an earlier record a caller still holds (0: none)
    heldFrom,     \* the raw context that earlier record was read from
    messages,     \* State.messages
    is_last_step, \* State.is_last_step
    lastUpdate    \* the update the latest node step returned, after coercion

configVars == <<imports, context, call, outcome, heap, held, heldFrom>>
stateVars == <<messages, is_last_step, lastUpdate>>
vars == <<imports, context, call, outcome, heap, held, heldFrom,
          messages, is_last_step, lastUpdate>>

-----------------------------------------------------------------------------
(* Bounds of the model *)

\* the most keys a host puts in 'configurable' (runs that keep no earlier record)
MaxKeys == 3
\* the most keys in 'configurable' in runs where a caller holds an earlier record
MaxHeldKeys == 2
\* the most keyword arguments in a direct construction
MaxKwargs == 2
\* the longest State.messages followed
MaxMessages == 3

-----------------------------------------------------------------------------
(* Python values *)

NoEntries == [k \in {} |-> 0]

PyNone == [t |-> "none", s |-> "", i |-> 0, d |-> NoEntries]
PyStr(x) == [t |-> "str", s |-> x, i |-> 0, d |-> NoEntries]
PyInt(n) == [t |-> "int", s |-> "", i |-> n, d |-> NoEntries]
PyList(n) == [t |-> "list", s |-> "", i |-> n, d |-> NoEntries]
PyDict(f) == [t |-> "dict", s |-> "", i |-> 0, d |-> f]

\* Python truth value: None, "", 0, [] and {} are false
Truthy(v) ==
    CASE v.t = "none" -> FALSE
      [] v.t = "str" -> v.s # ""
      [] v.t = "int" -> v.i # 0
      [] v.t = "list" -> v.i # 0
      [] OTHER -> DOMAIN v.d # {}

\* dict.get(key): None when the key is absent
Get(v, key) == IF key \in DOMAIN v.d THEN v.d[key] ELSE PyNone

\* a dict comprehension keeping the keys in keep
Restrict(f, keep) == [k \in (DOMAIN f) \cap keep |-> f[k]]

-----------------------------------------------------------------------------
(* configuration.py: the Configuration dataclass *)

DefaultMaxSearchResults == 10

FieldNames ==
    {"system_prompt", "model", "max_search_results",
     "host", "accept", "user_agent", "origin"}

\* (variant: the model default names another model)
MutDefaultsModelDrift ==
    [system_prompt |-> PyStr("prompts.SYSTEM_PROMPT"),
     model |-> PyStr("openai/gpt-4"),
     max_search_results |-> PyInt(DefaultMaxSearchResults),
     host |-> PyNone, accept |-> PyNone, user_agent |-> PyNone, origin |-> PyNone]

\* the field defaults; prompts.SYSTEM_PROMPT is a fixed text of another module
Defaults ==
    [system_prompt |-> PyStr("prompts.SYSTEM_PROMPT"),
     model |-> PyStr("openai/gpt-5"),
     max_search_results |-> PyInt(DefaultMaxSearchResults),
     host |-> PyNone, accept |-> PyNone, user_agent |-> PyNone, origin |-> PyNone]

\* (variant: a host given as None is stored as the text "None")
MutInitCoercesHostToText(kwargs) ==
    IF DOMAIN kwargs \subseteq FieldNames
    THEN [raised |-> "",
          rec |-> [f \in FieldNames |->
                      IF f \in DOMAIN kwargs
                      THEN IF f = "host" /\ kwargs[f].t = "none"
                           THEN PyStr("None")
                           ELSE kwargs[f]
                      ELSE Defaults[f]]]
    ELSE [raised |-> "TypeError", rec |-> Defaults]

\* Configuration(**kwargs): the generated kw_only __init__ stores each argument
\* as given (no validation) and raises TypeError on a name that is no field
ConfigurationInit(kwargs) ==
    IF DOMAIN kwargs \subseteq FieldNames
    THEN [raised |-> "",
          rec |-> [f \in FieldNames |->
                      IF f \in DOMAIN kwargs THEN kwargs[f] ELSE Defaults[f]]]
    ELSE [raised |-> "TypeError", rec |-> Defaults]

-----------------------------------------------------------------------------
(* configuration.py: _ConfigAccessor.from_context *)

\* langgraph.config.get_config as the host provides it: the ambient context,
\* or the error the lookup ends with (RuntimeError outside a run)
GetConfig(ctx) ==
    IF ctx.getter = "returns"
    THEN [raised |-> "", value |-> ctx.raw]
    ELSE [raised |-> ctx.getter, value |-> PyNone]

\* raw = _get_config() if _get_config else None, except RuntimeError: raw = None
FetchRaw(imp, ctx) ==
    IF ~imp.get_config
    THEN [raised |-> "", value |-> PyNone]
    ELSE LET r == GetConfig(ctx)
         IN  IF r.raised = "RuntimeError"
             THEN [raised |-> "", value |-> PyNone]
             ELSE r

\* the local stand-in when langchain_core does not import: return value or {}
\* (shared: the result is the argument itself, not a copy)
FallbackEnsureConfig(value) ==
    IF Truthy(value)
    THEN [raised |-> "", cfg |-> value, shared |-> TRUE]
    ELSE [raised |-> "", cfg |-> PyDict(NoEntries), shared |-> FALSE]

\* langchain_core.runnables.ensure_config, bound when it imports: a new mapping
\* with an empty 'configurable', updated from config.items() when config is
\* not None (a non-None 'configurable' taken as v.copy()), whose 'configurable'
\* is then walked with .items(). A config without .items(), a 'configurable'
\* without .copy() or without .items(), ends in AttributeError. Only the
\* 'configurable' key of the result is kept here; the contexts followed carry
\* no top-level key outside the framework's own, and the library's own ambient
\* config is the context get_config returns, so merging it changes nothing.
LibraryEnsureConfig(config) ==
    CASE config.t = "none" ->
            [raised |-> "", shared |-> FALSE,
             cfg |-> PyDict([k \in {"configurable"} |-> PyDict(NoEntries)])]
      [] config.t # "dict" ->
            [raised |-> "AttributeError", shared |-> FALSE, cfg |-> PyNone]
      [] OTHER ->
            LET c == Get(config, "configurable")
            IN  CASE c.t = "none" ->
                        [raised |-> "", shared |-> FALSE,
                         cfg |-> PyDict([k \in {"configurable"} |-> PyDict(NoEntries)])]
                  [] c.t = "dict" ->
                        [raised |-> "", shared |-> FALSE,
                         cfg |-> PyDict([k \in {"configurable"} |-> c])]
                  [] OTHER ->
                        [raised |-> "AttributeError", shared |-> FALSE, cfg |-> PyNone]

\* cfg = _ensure_config(raw), with whichever _ensure_config was bound
EnsureConfig(imp, raw) ==
    IF imp.ensure_config THEN LibraryEnsureConfig(raw) ELSE FallbackEnsureConfig(raw)

\* configurable = (cfg.get("configurable") if isinstance(cfg, dict) else None) or {}
ExtractConfigurable(cfg) ==
    LET c == IF cfg.t = "dict" THEN Get(cfg, "configurable") ELSE PyNone
    IN  IF Truthy(c) THEN c ELSE PyDict(NoEntries)

\* allowed = {f.name for f in fields(Configuration) if f.init}
Allowed ==
    FieldNames

\* (variant: the unknown keys are deleted from configurable itself)
MutFilterInPlace(configurable) ==
    IF configurable.t # "dict"
    THEN [raised |-> "AttributeError", kwargs |-> NoEntries, left |-> configurable]
    ELSE [raised |-> "",
          kwargs |-> Restrict(configurable.d, Allowed),
          left |-> PyDict(Restrict(configurable.d, Allowed))]

\* (variant: a key whose value is None is skipped)
MutFilterDropsNone(configurable) ==
    IF configurable.t # "dict"
    THEN [raised |-> "AttributeError", kwargs |-> NoEntries, left |-> configurable]
    ELSE [raised |-> "",
          kwargs |-> Restrict(configurable.d,
                        {k \in Allowed \cap DOMAIN configurable.d :
                            configurable.d[k].t # "none"}),
          left |-> configurable]

\* (variant: the host value is also passed as the model)
MutFilterCoreFromHost(configurable) ==
    IF configurable.t # "dict"
    THEN [raised |-> "AttributeError", kwargs |-> NoEntries, left |-> configurable]
    ELSE [raised |-> "",
          kwargs |-> [k \in (DOMAIN configurable.d \cap Allowed)
                             \cup (IF "host" \in DOMAIN configurable.d
                                   THEN {"model"} ELSE {}) |->
                         IF k = "model" /\ "host" \in DOMAIN configurable.d
                         THEN configurable.d["host"]
                         ELSE configurable.d[k]],
          left |-> configurable]

\* {k: v for k, v in configurable.items() if k in allowed}: .items() exists on a
\* dict only; the comprehension builds a new dict and leaves configurable
\* (field left) as it was
FilterAllowed(configurable) ==
    IF configurable.t # "dict"
    THEN [raised |-> "AttributeError", kwargs |-> NoEntries, left |-> configurable]
    ELSE [raised |-> "",
          kwargs |-> Restrict(configurable.d, Allowed),
          left |-> configurable]

\* the ambient object after the call: a write to configurable reaches it when
\* cfg is the raw object itself and configurable is its own 'configurable'
AmbientAfter(raw, norm, configurable, left) ==
    IF /\ norm.shared
       /\ raw.t = "dict"
       /\ "configurable" \in DOMAIN raw.d
       /\ raw.d["configurable"] = configurable
    THEN PyDict([raw.d EXCEPT !["configurable"] = left])
    ELSE raw

\* from_context as a whole: how it ends, the record it returns, and the ambient
\* context object after it
FromContext(imp, ctx) ==
    LET fetched == FetchRaw(imp, ctx)
    IN  IF fetched.raised # ""
        THEN [raised |-> fetched.raised, rec |-> Defaults, ambient |-> ctx.raw]
        ELSE
        LET norm == EnsureConfig(imp, fetched.value)
        IN  IF norm.raised # ""
            THEN [raised |-> norm.raised, rec |-> Defaults, ambient |-> ctx.raw]
            ELSE
            LET configurable == ExtractConfigurable(norm.cfg)
                picked == FilterAllowed(configurable)
                amb == IF imp.get_config /\ ctx.getter = "returns"
                       THEN AmbientAfter(ctx.raw, norm, configurable, picked.left)
                       ELSE ctx.raw
            IN  IF picked.raised # ""
                THEN [raised |-> picked.raised, rec |-> Defaults, ambient |-> amb]
                ELSE LET made == ConfigurationInit(picked.kwargs)
                     IN  [raised |-> made.raised, rec |-> made.rec, ambient |-> amb]

-----------------------------------------------------------------------------
(* The host: what it can make of the ambient context *)

Keys == FieldNames \cup {"unused_key"}

\* the values a host supplies under each key
Values(k) ==
    CASE k = "system_prompt" -> {PyStr("Be brief.")}
      [] k = "model" -> {PyStr("anthropic/claude-3"), PyNone}
      [] k = "max_search_results" -> {PyInt(5)}
      [] k = "host" -> {PyStr("example.org")}
      [] k = "accept" -> {PyStr("*/*")}
      [] k = "user_agent" -> {PyStr("curl/8")}
      [] k = "origin" -> {PyStr("https://example.org")}
      [] OTHER -> {PyStr("x")}

\* objects that are no mapping: falsy and truthy ones of each type
NonMappings ==
    {PyNone, PyStr(""), PyStr("abc"), PyInt(0), PyInt(5), PyList(0), PyList(1)}

\* a top-level context around a given 'configurable' entry
Around(c) == PyDict([k \in {"configurable"} |-> c])

\* the contexts a host starts a run with
StartingContexts ==
    NonMappings \cup {PyDict(NoEntries)}
        \cup {Around(c) : c \in NonMappings \cup {PyDict(NoEntries)}}

Unset == [getter |-> "RuntimeError", raw |-> PyNone]

HasConfigurableDict(ctx) ==
    /\ ctx.getter = "returns"
    /\ ctx.raw.t = "dict"
    /\ "configurable" \in DOMAIN ctx.raw.d
    /\ ctx.raw.d["configurable"].t = "dict"

ConfigurableOf(ctx) == ctx.raw.d["configurable"].d

Idle == [status |-> "idle", exc |-> "", ref |-> 0]
NoCall == [op |-> "none", kwargs |-> NoEntries]

\* a new run: the earlier result is gone, a held record stays
NewRun ==
    /\ outcome' = Idle
    /\ call' = NoCall
    /\ heap' = Restrict(heap, {held})
    /\ UNCHANGED <<imports, held, heldFrom>>
    /\ UNCHANGED stateVars

\* a run starts (runs do not nest): the lookup now returns the run's context
HostEntersRun(raw) ==
    /\ context.getter # "returns"
    /\ context' = [getter |-> "returns", raw |-> raw]
    /\ NewRun

\* the run ends: the lookup raises RuntimeError again
HostLeavesRun ==
    /\ context.getter # "RuntimeError"
    /\ context' = Unset
    /\ NewRun

\* the lookup fails with an error that is no RuntimeError
HostLookupBreaks ==
    /\ context.getter # "LookupError"
    /\ context' = [getter |-> "LookupError", raw |-> PyNone]
    /\ NewRun

\* the host or platform puts a key into the run's 'configurable'
HostSetsKey(k, v, maxKeys) ==
    /\ HasConfigurableDict(context)
    /\ Cardinality(DOMAIN ConfigurableOf(context) \cup {k}) <= maxKeys
    /\ context' = [context EXCEPT !.raw =
          Around(PyDict([x \in DOMAIN ConfigurableOf(context) \cup {k} |->
                            IF x = k THEN v ELSE ConfigurableOf(context)[x]]))]
    /\ NewRun

\* the host takes a key out of the run's 'configurable'
HostDropsKey(k, maxKeys) ==
    /\ HasConfigurableDict(context)
    /\ k \in DOMAIN ConfigurableOf(context)
    /\ Cardinality(DOMAIN ConfigurableOf(context)) <= maxKeys
    /\ context' = [context EXCEPT !.raw =
          Around(PyDict(Restrict(ConfigurableOf(context),
                                 DOMAIN ConfigurableOf(context) \ {k})))]
    /\ NewRun

-----------------------------------------------------------------------------
(* The operations *)

ObjIds == {1, 2}

\* Configuration(...) allocates a new object: an id no live object has
FreshId(live) ==
    CHOOSE i \in ObjIds : i \notin live

\* Configuration.from_context()
CallFromContext ==
    LET r == FromContext(imports, context)
        new == FreshId({held} \ {0})
    IN  /\ call' = [op |-> "from_context", kwargs |-> NoEntries]
        /\ context' = [context EXCEPT !.raw = r.ambient]
        /\ IF r.raised = ""
           THEN /\ outcome' = [status |-> "returned", exc |-> "", ref |-> new]
                /\ heap' = [i \in ({held} \ {0}) \cup {new} |->
                               IF i = new THEN r.rec ELSE heap[i]]
           ELSE /\ outcome' = [status |-> "raised", exc |-> r.raised, ref |-> 0]
                /\ heap' = Restrict(heap, {held})
        /\ UNCHANGED <<imports, held, heldFrom>>
        /\ UNCHANGED stateVars

\* Configuration(**kwargs), called directly
Construct(kwargs) ==
    LET made == ConfigurationInit(kwargs)
        new == FreshId({held} \ {0})
    IN  /\ call' = [op |-> "Configuration", kwargs |-> kwargs]
        /\ IF made.raised = ""
           THEN /\ outcome' = [status |-> "returned", exc |-> "", ref |-> new]
                /\ heap' = [i \in ({held} \ {0}) \cup {new} |->
                               IF i = new THEN made.rec ELSE heap[i]]
           ELSE /\ outcome' = [status |-> "raised", exc |-> made.raised, ref |-> 0]
                /\ heap' = Restrict(heap, {held})
        /\ UNCHANGED <<imports, context, held, heldFrom>>
        /\ UNCHANGED stateVars

\* the caller keeps the record from_context just returned
CallerKeeps ==
    /\ outcome.status = "returned"
    /\ call.op = "from_context"
    /\ held # outcome.ref
    /\ held' = outcome.ref
    /\ heldFrom' = context.raw
    /\ heap' = Restrict(heap, {outcome.ref})
    /\ UNCHANGED <<imports, context, call, outcome>>
    /\ UNCHANGED stateVars

\* the caller lets go of the record it kept
CallerReleases ==
    /\ held # 0
    /\ held' = 0
    /\ heldFrom' = PyNone
    /\ heap' = Restrict(heap, {outcome.ref})
    /\ UNCHANGED <<imports, context, call, outcome>>
    /\ UNCHANGED stateVars

\* the caller keeps the returned record and the host starts a run whose
\* 'configurable' holds exactly that record's field names and values
FeedBack ==
    /\ outcome.status = "returned"
    /\ call.op = "from_context"
    /\ held' = outcome.ref
    /\ heldFrom' = context.raw
    /\ heap' = Restrict(heap, {outcome.ref})
    /\ context' = [getter |-> "returns",
                   raw |-> Around(PyDict(heap[outcome.ref]))]
    /\ outcome' = Idle
    /\ call' = NoCall
    /\ UNCHANGED imports
    /\ UNCHANGED stateVars

\* every keyword-argument mapping of at most n entries
KwargsUpTo(n) ==
    UNION {{f \in [S -> UNION {Values(k) : k \in Keys}] :
                \A k \in S : f[k] \in Values(k)} :
           S \in {T \in SUBSET Keys : Cardinality(T) <= n}}

-----------------------------------------------------------------------------
(* state.py: State, whose messages channel is reduced by add_messages *)

\* A message is [type, id, content]; id 0 is a message given without an id.
\* Ids the caller chose are positive, ids the reducer generates are negative.
CallerIds == {1}
Contents == {"a", "b"}

\* what a node may return for the messages channel: bare strings and messages
\* without an id (each becomes a message with a generated id), messages with
\* an id of the caller's, removal markers
UpdateItems ==
    [type : {"human"}, id : CallerIds \cup {0}, content : Contents]
        \cup [type : {"remove"}, id : CallerIds, content : {""}]

UpdateLengths == {1, 2}

Updates == UNION {[1..n -> UpdateItems] : n \in UpdateLengths}

IdsOf(seq) == {seq[j].id : j \in 1..Len(seq)}

\* a generated id (uuid4): one that no message at hand carries
NewMessageId(used) ==
    CHOOSE n \in {-j : j \in 1..(Cardinality(used) + 1)} : n \notin used

\* every message without an id is given a generated one
RECURSIVE AssignIds(_, _)
AssignIds(seq, used) ==
    IF seq = <<>> THEN <<>>
    ELSE LET m == IF Head(seq).id = 0
                  THEN [Head(seq) EXCEPT !.id = NewMessageId(used)]
                  ELSE Head(seq)
         IN  <<m>> \o AssignIds(Tail(seq), used \cup {m.id})

IndexOfId(seq, id) ==
    IF id \in IdsOf(seq)
    THEN CHOOSE j \in 1..Len(seq) : seq[j].id = id
    ELSE 0

\* the merge loop of add_messages: a message whose id is already in the list
\* replaces that entry (a removal marker marks it for removal), any other
\* message is appended; a removal marker for an unknown id is a ValueError
RECURSIVE MergeById(_, _, _)
MergeById(merged, right, toRemove) ==
    IF right = <<>>
    THEN [raised |-> "", merged |-> merged, toRemove |-> toRemove]
    ELSE LET m == Head(right)
             at == IndexOfId(merged, m.id)
         IN  IF at # 0
             THEN IF m.type = "remove"
                  THEN MergeById(merged, Tail(right), toRemove \cup {m.id})
                  ELSE MergeById([merged EXCEPT ![at] = m], Tail(right),
                                 toRemove \ {m.id})
             ELSE IF m.type = "remove"
                  THEN [raised |-> "ValueError", merged |-> merged,
                        toRemove |-> toRemove]
                  ELSE MergeById(Append(merged, m), Tail(right), toRemove)

RECURSIVE Without(_, _)
Without(seq, ids) ==
    IF seq = <<>> THEN <<>>
    ELSE IF Head(seq).id \in ids
         THEN Without(Tail(seq), ids)
         ELSE <<Head(seq)>> \o Without(Tail(seq), ids)

\* (variant: the update replaces the list)
MutAddMessagesOverwrites(left, right) ==
    [raised |-> "", merged |-> right]

\* langgraph.graph.message.add_messages(left, right), the reducer the
\* annotation of State.messages names; right is given with its ids assigned
AddMessages(left, right) ==
    LET r == MergeById(left, right, {})
    IN  IF r.raised # ""
        THEN [raised |-> r.raised, merged |-> left]
        ELSE [raised |-> "", merged |-> Without(r.merged, r.toRemove)]

NoUpdate == [items |-> <<>>, raised |-> ""]

\* a node returns an update for messages; the engine applies the reducer
NodeUpdate(update) ==
    LET right == AssignIds(update, IdsOf(messages) \cup IdsOf(update))
        r == AddMessages(messages, right)
    IN  /\ Len(messages) + Len(update) <= MaxMessages
        /\ messages' = r.merged
        /\ lastUpdate' = [items |-> right, raised |-> r.raised]
        /\ UNCHANGED is_last_step
        /\ UNCHANGED configVars

\* the engine sets the managed flag
EngineSetsLastStep(b) ==
    /\ is_last_step # b
    /\ is_last_step' = b
    /\ UNCHANGED <<messages, lastUpdate>>
    /\ UNCHANGED configVars

-----------------------------------------------------------------------------
(* Specifications *)

ConfigInit ==
    /\ imports \in [get_config : BOOLEAN, ensure_config : BOOLEAN]
    /\ context = Unset
    /\ call = NoCall
    /\ outcome = Idle
    /\ heap = NoEntries
    /\ held = 0
    /\ heldFrom = PyNone

StateInit ==
    /\ messages = <<>>
    /\ is_last_step = FALSE
    /\ lastUpdate = NoUpdate

Init == ConfigInit /\ StateInit

\* the factory under a host that sets the ambient context
Next ==
    \/ \E raw \in StartingContexts : HostEntersRun(raw)
    \/ HostLeavesRun
    \/ HostLookupBreaks
    \/ \E k \in Keys : \E v \in Values(k) : HostSetsKey(k, v, MaxKeys)
    \/ \E k \in Keys : HostDropsKey(k, MaxKeys)
    \/ CallFromContext

Spec == Init /\ [][Next]_vars

\* the factory with a caller that keeps an earlier record
HeldNext ==
    \/ \E raw \in StartingContexts : HostEntersRun(raw)
    \/ HostLeavesRun
    \/ HostLookupBreaks
    \/ \E k \in Keys : \E v \in Values(k) : HostSetsKey(k, v, MaxHeldKeys)
    \/ \E k \in Keys : HostDropsKey(k, MaxHeldKeys)
    \/ CallFromContext
    \/ CallerKeeps
    \/ CallerReleases
    \/ FeedBack

HeldSpec == Init /\ [][HeldNext]_vars

\* direct construction
CtorNext ==
    \E kwargs \in KwargsUpTo(MaxKwargs) : Construct(kwargs)

CtorSpec == Init /\ [][CtorNext]_vars

\* the message state under node updates
StateNext ==
    \/ \E update \in Updates : NodeUpdate(update)
    \/ \E b \in BOOLEAN : EngineSetsLastStep(b)

StateSpec == Init /\ [][StateNext]_vars

-----------------------------------------------------------------------------
(* The claims *)

\* the latest operation was from_context and has ended
FactoryEnded == call.op = "from_context" /\ outcome.status # "idle"

ReturnedDefaults ==
    /\ outcome.status = "returned"
    /\ heap[outcome.ref] = ConfigurationInit(NoEntries).rec

\* C1: for every ambient context value (unset, absent, a non-mapping, a
\* mapping without 'configurable', a 'configurable' of any type, extra keys)
\* from_context ends by returning a record, never by raising.
C1_NeverRaisesOnAnyContext ==
    (FactoryEnded /\ context.getter \in {"RuntimeError", "returns"})
        => outcome.status = "returned"

\* C2: when the fetched context is a mapping whose 'configurable' entry is
\* absent or is no mapping, from_context returns the all-defaults record.
C2_NonMappingConfigurableGivesDefaults ==
    (/\ FactoryEnded
     /\ imports.get_config
     /\ context.getter = "returns"
     /\ context.raw.t = "dict"
     /\ ~HasConfigurableDict(context))
        => ReturnedDefaults

\* C3: any failure while fetching the context (the getter raising any error)
\* or normalizing it is swallowed, and from_context returns the all-defaults
\* record.
C3_AnyFetchOrNormalizeFailureGivesDefaults ==
    (/\ FactoryEnded
     /\ imports.get_config
     /\ \/ GetConfig(context).raised # ""
        \/ EnsureConfig(imports, GetConfig(context).value).raised # "")
        => ReturnedDefaults

\* C4: with no active context (the getter raises the runtime-state error,
\* returns nothing, or cannot be imported) or a context whose top level is
\* absent or no mapping, from_context does not raise and returns the record
\* that construction with no arguments gives.
C4_NoContextOrNonMappingTopLevelGivesDefaults ==
    (/\ FactoryEnded
     /\ \/ ~imports.get_config
        \/ context.getter = "RuntimeError"
        \/ context.getter = "returns" /\ context.raw.t # "dict")
        => ReturnedDefaults

\* C5: for a 'configurable' mapping M the returned record has, for each of the
\* seven field names, M's value when M has the key and the default otherwise;
\* keys outside the seven give no attribute and no error.
C5_OverridesAppliedUnknownKeysDropped ==
    (FactoryEnded /\ imports.get_config /\ HasConfigurableDict(context))
        => /\ outcome.status = "returned"
           /\ DOMAIN heap[outcome.ref] = FieldNames
           /\ \A f \in FieldNames :
                 heap[outcome.ref][f] =
                    IF f \in DOMAIN ConfigurableOf(context)
                    THEN ConfigurableOf(context)[f]
                    ELSE Defaults[f]

\* the spec's example: {model: 'anthropic/claude-3', max_search_results: 5,
\* unused_key: 'x'} was read, and model and max_search_results were taken
C5_Witness ==
    /\ FactoryEnded
    /\ imports.get_config
    /\ HasConfigurableDict(context)
    /\ DOMAIN ConfigurableOf(context) = {"model", "max_search_results", "unused_key"}
    /\ outcome.status = "returned"
    /\ heap[outcome.ref].model = PyStr("anthropic/claude-3")
    /\ heap[outcome.ref].max_search_results = PyInt(5)
    /\ heap[outcome.ref].host = PyNone

\* C6: round trip: when the factory runs under a context whose 'configurable'
\* holds exactly the field names and values of a record R it returned before,
\* it returns a record equal to R.
C6_RoundTrip ==
    (/\ FactoryEnded
     /\ outcome.status = "returned"
     /\ held # 0
     /\ held # outcome.ref
     /\ HasConfigurableDict(context)
     /\ ConfigurableOf(context) = heap[held])
        => heap[outcome.ref] = heap[held]

\* a record with overrides and a None was fed back and read again
C6_Witness ==
    /\ FactoryEnded
    /\ outcome.status = "returned"
    /\ held # 0
    /\ held # outcome.ref
    /\ imports.get_config
    /\ HasConfigurableDict(context)
    /\ ConfigurableOf(context) = heap[held]
    /\ heap[held].origin = PyStr("https://example.org")
    /\ heap[held].model = PyNone
    /\ heap[outcome.ref] = heap[held]

\* C7 as claimed: under the reducer every earlier value of messages is a prefix
\* of every later one (nothing is replaced, removed or reordered).
C7_AlwaysAppendOnly ==
    [][/\ Len(messages) <= Len(messages')
       /\ SubSeq(messages', 1, Len(messages)) = messages]_vars

\* an update none of whose messages carries the id of a message already in the
\* list or of an earlier message of the update, and that holds no removal marker
PlainAppend(left, update) ==
    /\ update.raised = ""
    /\ \A j \in 1..Len(update.items) :
          /\ update.items[j].type # "remove"
          /\ update.items[j].id \notin IdsOf(left)
          /\ \A h \in 1..(j - 1) : update.items[h].id # update.items[j].id

\* C7 amended: an update whose messages carry no id already present in the list
\* or earlier in the update, and no removal marker, is appended in order: the
\* new value is the old one followed by the update's messages.
C7_AppendsWhenNoIdClash ==
    [][PlainAppend(messages, lastUpdate')
          => messages' = messages \o lastUpdate'.items]_vars

\* 'a' then 'b' gave ['a', 'b']
C7_Witness ==
    /\ Len(messages) = 2
    /\ messages[1].content = "a"
    /\ messages[2].content = "b"
    /\ messages[1].id < 0
    /\ messages[2].id < 0
    /\ Len(lastUpdate.items) = 1
    /\ lastUpdate.raised = ""
    /\ lastUpdate.items[1] = messages[2]

\* C8: a from_context call leaves the ambient context as it was, 'configurable'
\* and its filtered-out keys included, leaves a record returned earlier as it
\* was, and returns an object that is none of the records still held.
C8_NoSideEffects ==
    [][(/\ call'.op = "from_context"
        /\ outcome'.status # "idle"
        /\ held' = held)
          => /\ context' = context
             /\ held # 0 => (held \in DOMAIN heap' /\ heap'[held] = heap[held])
             /\ (outcome'.status = "returned" /\ held # 0)
                   => outcome'.ref # held]_vars

\* a second call returned a different record while an earlier one was held, under
\* a context shared with the factory that carries a key it filters out
C8_Witness ==
    /\ FactoryEnded
    /\ outcome.status = "returned"
    /\ imports.get_config
    /\ ~imports.ensure_config
    /\ held # 0
    /\ outcome.ref # held
    /\ heap[outcome.ref] # heap[held]
    /\ HasConfigurableDict(context)
    /\ "unused_key" \in DOMAIN ConfigurableOf(context)

\* C9: Configuration() succeeds with the built-in prompt, 'openai/gpt-5', 10
\* and no pass-through value; construction with any subset of the field names
\* as keyword overrides succeeds with the other fields at those defaults.
C9_ConstructionDefaults ==
    (call.op = "Configuration" /\ DOMAIN call.kwargs \subseteq FieldNames)
        => /\ outcome.status = "returned"
           /\ \A f \in FieldNames :
                 heap[outcome.ref][f] =
                    IF f \in DOMAIN call.kwargs THEN call.kwargs[f]
                    ELSE CASE f = "system_prompt" -> PyStr("prompts.SYSTEM_PROMPT")
                           [] f = "model" -> PyStr("openai/gpt-5")
                           [] f = "max_search_results" -> PyInt(10)
                           [] OTHER -> PyNone

\* Configuration() was called with no argument
C9_Witness ==
    /\ call.op = "Configuration"
    /\ call.kwargs = NoEntries
    /\ outcome.status = "returned"
    /\ heap[outcome.ref].model = PyStr("openai/gpt-5")

CoreNames == {"system_prompt", "model", "max_search_results"}

IsConfigurableDict(raw) ==
    /\ raw.t = "dict"
    /\ "configurable" \in DOMAIN raw.d
    /\ raw.d["configurable"].t = "dict"

\* C10: two 'configurable' mappings that agree on system_prompt, model and
\* max_search_results give records with the same system_prompt, model and
\* max_search_results, whatever their other keys; two calls under the same
\* context return equal records.
C10_PassThroughDoesNotInterfere ==
    (/\ FactoryEnded
     /\ outcome.status = "returned"
     /\ held # 0
     /\ held # outcome.ref
     /\ context.getter = "returns")
        => /\ (/\ IsConfigurableDict(heldFrom)
               /\ IsConfigurableDict(context.raw)
               /\ Restrict(heldFrom.d["configurable"].d, CoreNames)
                     = Restrict(ConfigurableOf(context), CoreNames))
                 => \A f \in CoreNames : heap[outcome.ref][f] = heap[held][f]
           /\ heldFrom = context.raw => heap[outcome.ref] = heap[held]

\* two runs agreeing on model, differing on host and on an unknown key
C10_Witness ==
    /\ FactoryEnded
    /\ outcome.status = "returned"
    /\ imports.get_config
    /\ held # 0
    /\ held # outcome.ref
    /\ IsConfigurableDict(heldFrom)
    /\ HasConfigurableDict(context)
    /\ DOMAIN heldFrom.d["configurable"].d = {"model", "host"}
    /\ DOMAIN ConfigurableOf(context) = {"model", "unused_key"}
    /\ heldFrom.d["configurable"].d["model"] = ConfigurableOf(context)["model"]
    /\ heap[outcome.ref].model = heap[held].model
    /\ heap[outcome.ref].host # heap[held].host

====
